---- MODULE Spec2Model ----
(***************************************************************************)
(* A model of the BIND terminology client (src/src/terminology/index.ts):  *)
(* the construction of a TerminologyClient, its five operations (list,     *)
(* get, lookup, search, health) and the shared request protocol, with the  *)
(* transport (fetch) and the response body reader (response.json) as the   *)
(* environment.                                                            *)
(*                                                                         *)
(* Strings are sequences of one-character strings, so that encoding,       *)
(* concatenation and the trailing-slash rule are computed character by     *)
(* character.  JavaScript values are tagged records ([kind |-> ...]).      *)
(***************************************************************************)
EXTENDS Naturals, Sequences, FiniteSets, TLC

\* ------------------------------------------------------------------ bounds

\* Longest id, code, query and lang argument (in characters).
MaxLen == 1

\* Number of calls issued on the one client in the concurrent specification.
MaxCalls == 2

\* ------------------------------------------------------------- characters

\* A UTF-16 code unit that is a surrogate with no partner (e.g. "\uD800").
LoneSurrogate == "<lone surrogate>"

\* U+FFFD, what a lone surrogate becomes when a string is made a USVString.
ReplacementChar == "<U+FFFD>"

\* Letters and digits (the lower-case letters and the digits stand for all).
AlphaNumeric ==
    {"a", "b", "c", "d", "e", "f", "g", "h", "i", "j", "k", "l", "m", "n", "o", "p", "q",
     "r", "s", "t", "u", "v", "w", "x", "y", "z",
     "0", "1", "2", "3", "4", "5", "6", "7", "8", "9"}

\* The characters encodeURIComponent leaves alone: A-Z a-z 0-9 - _ . ! ~ * ' ( )
UriUnreserved == AlphaNumeric \cup {"-", "_", ".", "!", "~", "*", "'", "(", ")"}

\* The characters the application/x-www-form-urlencoded serializer leaves
\* alone: A-Z a-z 0-9 * - . _
FormUnreserved == AlphaNumeric \cup {"*", "-", ".", "_"}

\* The UTF-8 bytes of a character, percent-encoded.
PercentBytes(ch) ==
    CASE ch = "/" -> <<"%", "2", "F">>
      [] ch = "?" -> <<"%", "3", "F">>
      [] ch = "&" -> <<"%", "2", "6">>
      [] ch = "=" -> <<"%", "3", "D">>
      [] ch = "%" -> <<"%", "2", "5">>
      [] ch = " " -> <<"%", "2", "0">>
      [] ch = "+" -> <<"%", "2", "B">>
      [] ch = "#" -> <<"%", "2", "3">>
      [] ch = "!" -> <<"%", "2", "1">>
      [] ch = "$" -> <<"%", "2", "4">>
      [] ch = ":" -> <<"%", "3", "A">>
      [] ch = ReplacementChar -> <<"%", "E", "F", "%", "B", "F", "%", "B", "D">>

RECURSIVE Concat(_)
\* The concatenation of a sequence of strings.
Concat(ss) == IF ss = <<>> THEN <<>> ELSE Head(ss) \o Concat(Tail(ss))

\* All strings over the alphabet chars of length at most n.
RECURSIVE StringsUpTo(_, _)
StringsUpTo(chars, n) ==
    IF n = 0 THEN {<<>>}
    ELSE LET shorter == StringsUpTo(chars, n - 1)
         IN  shorter \cup {Append(s, ch) : s \in shorter, ch \in chars}

\* ------------------------------------------------------ encodeURIComponent

\* encodeURIComponent throws URIError when its argument holds a lone surrogate.
EncodeURIComponentThrows(s) == \E i \in 1..Len(s) : s[i] = LoneSurrogate

\* encodeURI(s): the encoder for a whole URI, which also leaves the reserved
\* characters ; / ? : @ & = + $ , # alone.
EncodeURI(s) ==
    Concat([i \in 1..Len(s) |->
              IF s[i] \in UriUnreserved \cup {";", "/", "?", ":", "@", "&", "=", "+", "$", ",", "#"}
              THEN <<s[i]>> ELSE PercentBytes(s[i])])

\* encodeURIComponent(s), for s without lone surrogates.
EncodeURIComponent(s) ==
    Concat([i \in 1..Len(s) |->
              IF s[i] \in UriUnreserved THEN <<s[i]>> ELSE PercentBytes(s[i])])

\* --------------------------------------------------------- URLSearchParams

\* The conversion of a JavaScript string to a USVString (WebIDL): every lone
\* surrogate is replaced by U+FFFD.
ToUSVString(s) ==
    [i \in 1..Len(s) |-> IF s[i] = LoneSurrogate THEN ReplacementChar ELSE s[i]]

\* A serializer that writes names and values as they are.
FormEncodeNothing(s) == s

\* The application/x-www-form-urlencoded byte serializer.
FormEncode(s) ==
    Concat([i \in 1..Len(s) |->
              IF s[i] \in FormUnreserved THEN <<s[i]>>
              ELSE IF s[i] = " " THEN <<"+">>
              ELSE PercentBytes(s[i])])

\* new URLSearchParams(): the empty list of name-value pairs.
NewParams == <<>>

\* new URLSearchParams({ name: value }).
NewParamsWith(name, value) == <<<<ToUSVString(name), ToUSVString(value)>>>>

\* params.set(name, value): the first pair named name gets the value and the
\* other pairs of that name are removed; with no such pair, one is appended.
ParamsSet(params, name, value) ==
    LET n == ToUSVString(name)
        v == ToUSVString(value)
        hits == {i \in 1..Len(params) : params[i][1] = n}
    IN  IF hits = {} THEN Append(params, <<n, v>>)
        ELSE LET first == CHOOSE i \in hits : \A j \in hits : i <= j
                 kept == SelectSeq([i \in 1..Len(params) |-> <<i, params[i]>>],
                                   LAMBDA p : p[1] = first \/ p[2][1] # n)
             IN  [i \in 1..Len(kept) |->
                    IF kept[i][1] = first THEN <<n, v>> ELSE kept[i][2]]

RECURSIVE ParamsToString(_)
\* params.toString(): name=value pairs, form-encoded, joined by "&".
ParamsToString(params) ==
    IF params = <<>> THEN <<>>
    ELSE LET pair == FormEncode(params[1][1]) \o <<"=">> \o FormEncode(params[1][2])
         IN  IF Len(params) = 1 THEN pair
             ELSE pair \o <<"&">> \o ParamsToString(Tail(params))

\* ------------------------------------------------------- JavaScript values

\* undefined, null, a string (a sequence of pieces, so that a template literal
\* keeps its parts), an object (a function from property names to values) and
\* an array.
Undefined == [kind |-> "undefined"]
JsNull == [kind |-> "null"]
JsString(pieces) == [kind |-> "string", text |-> pieces]
JsObject(fields) == [kind |-> "object", fields |-> fields]
JsArray(items) == [kind |-> "array", items |-> items]

IsNullish(v) == v.kind \in {"undefined", "null"}

\* body?.error
OptionalError(body) ==
    IF IsNullish(body) THEN Undefined
    ELSE IF body.kind = "object" /\ "error" \in DOMAIN body.fields THEN body.fields["error"]
    ELSE Undefined

\* left ?? right
NullishCoalesce(left, right) == IF IsNullish(left) THEN right ELSE left

\* ------------------------------------------------------------ environment

\* The response bodies the transport may answer with (as text).
NotJsonBody == "<html>oops</html>"
ErrorBody == "{\"error\":\"not found\"}"
NullErrorBody == "{\"error\":null}"
CodeSystemBody == "{\"resourceType\":\"CodeSystem\",\"id\":\"roof-type\",\"concept\":[]}"
NullBody == "null"
Bodies == {NotJsonBody, ErrorBody, NullErrorBody, CodeSystemBody, NullBody}

\* JSON.parse of a body text: whether it is well-formed, and its value.
JsonParse(text) ==
    CASE text = ErrorBody ->
           [ok |-> TRUE, value |-> JsObject([error |-> JsString(<<"not found">>)])]
      [] text = NullErrorBody ->
           [ok |-> TRUE, value |-> JsObject([error |-> JsNull])]
      [] text = NullBody -> [ok |-> TRUE, value |-> JsNull]
      [] text = CodeSystemBody ->
           [ok |-> TRUE,
            value |-> JsObject([resourceType |-> JsString(<<"CodeSystem">>),
                                id |-> JsString(<<"roof-type">>),
                                concept |-> JsArray(<<>>)])]
      [] OTHER -> [ok |-> FALSE, value |-> Undefined]

\* The statuses the transport may answer with, and the reason phrase of each.
Statuses == {200, 299, 300, 404, 500}
StatusText(status) ==
    CASE status = 200 -> "OK"
      [] status = 299 -> ""
      [] status = 300 -> "Multiple Choices"
      [] status = 404 -> "Not Found"
      [] status = 500 -> "Internal Server Error"

Responses ==
    {[status |-> st, statusText |-> StatusText(st), body |-> b] : st \in Statuses, b \in Bodies}

NoResponse == [status |-> 0, statusText |-> "", body |-> ""]

\* A test of the status that takes every status below 400 for a success.
ResponseOkBelow400(response) == response.status < 400

\* response.ok, as the Fetch standard defines it for a Response: the status
\* is in the range 200 to 299.
ResponseOk(response) == response.status \in 200..299

\* What the transport may reject with: a network failure, or any value a
\* substituted transport chooses.
NetworkError == [kind |-> "TypeError", message |-> <<"fetch failed">>]
StubError == [kind |-> "StubError", message |-> <<"boom">>]
TransportErrors == {NetworkError, StubError}

\* What response.json() rejects with on a body that is not JSON.
JsonSyntaxError == [kind |-> "SyntaxError", message |-> <<"Unexpected token">>]

\* What encodeURIComponent throws.
UriError == [kind |-> "URIError", message |-> <<"URI malformed">>]

\* ------------------------------------------------- TerminologyClientError

\* A plain Error that is given the three values: no class and no name of its own.
PlainError(message, status, body) ==
    [kind |-> "Error", name |-> "Error", message |-> message.text,
     status |-> status, body |-> body]

\* new TerminologyClientError(message, status, body): an Error whose message
\* is the string given, with name, status and body set.
TerminologyClientError(message, status, body) ==
    [kind |-> "TerminologyClientError",
     name |-> "TerminologyClientError",
     message |-> message.text,
     status |-> status,
     body |-> body]

\* ------------------------------------------------------------ the client

DEFAULT_BASE_URL ==
    <<"h", "t", "t", "p", "s", ":", "/", "/", "b", "i", "n", "d", ".", "c", "o", "d", "e", "s">>

\* "http://localhost:8787", the custom base URL of the README.
LocalBaseUrl ==
    <<"h", "t", "t", "p", ":", "/", "/", "l", "o", "c", "a", "l", "h", "o", "s", "t",
      ":", "8", "7", "8", "7">>

\* TerminologyClientOptions: baseUrl and fetch, each given or not.
ClientOptions ==
    {[baseUrlGiven |-> FALSE, baseUrl |-> <<>>, fetchGiven |-> FALSE],
     [baseUrlGiven |-> TRUE, baseUrl |-> LocalBaseUrl, fetchGiven |-> TRUE],
     [baseUrlGiven |-> TRUE, baseUrl |-> LocalBaseUrl \o <<"/">>, fetchGiven |-> TRUE],
     [baseUrlGiven |-> TRUE, baseUrl |-> LocalBaseUrl \o <<"/", "/">>, fetchGiven |-> FALSE]}

\* s.replace(/\/$/, ""): one slash at the very end of s, if there is one, is removed.
StripTrailingSlash(s) ==
    IF Len(s) > 0 /\ s[Len(s)] = "/" THEN SubSeq(s, 1, Len(s) - 1) ELSE s

\* A constructor that ignores the baseUrl option.
ConstructorBaseUrlIgnoresOption(opts) == DEFAULT_BASE_URL

\* constructor: this.baseUrl.
ConstructorBaseUrl(opts) ==
    StripTrailingSlash(IF opts.baseUrlGiven THEN opts.baseUrl ELSE DEFAULT_BASE_URL)

\* A constructor that ignores the fetch option.
ConstructorFetchAlwaysGlobal(opts) == "globalThis.fetch"

\* constructor: this.fetch.
ConstructorFetch(opts) ==
    IF opts.fetchGiven THEN "options.fetch" ELSE "globalThis.fetch"

\* The options argument of get, lookup and search: lang given or not.
NoLang == [langGiven |-> FALSE, lang |-> <<>>]
WithLang(lang) == [langGiven |-> TRUE, lang |-> lang]

\* if (options?.lang): lang is given and is not the empty string.
LangTruthy(options) == options.langGiven /\ options.lang # <<>>

CodeName == <<"c", "o", "d", "e">>
QName == <<"q">>
LangName == <<"l", "a", "n", "g">>

\* A lang parameter that defaults to "en" when the caller gives none.
SetLangDefaultEn(params, options) ==
    ParamsSet(params, LangName, IF LangTruthy(options) THEN options.lang ELSE <<"e", "n">>)

\* if (options?.lang) params.set("lang", options.lang)
SetLang(params, options) ==
    IF LangTruthy(options) THEN ParamsSet(params, LangName, options.lang) ELSE params

\* list: the path requested.
ListPath == <<"/", "l", "i", "s", "t">>

\* health: the path requested.
HealthPath == <<"/", "h", "e", "a", "l", "t", "h">>

\* A get that writes the id into the path as it is.
GetPathUnescaped(id, options) ==
    LET qs == ParamsToString(SetLang(NewParams, options))
    IN  <<"/">> \o id \o (IF qs # <<>> THEN <<"?">> \o qs ELSE <<>>)

\* A get that writes the "?" whether or not there is a query string.
GetPathAlwaysQuery(id, options) ==
    <<"/">> \o EncodeURIComponent(id) \o <<"?">> \o ParamsToString(SetLang(NewParams, options))

\* get: the path requested, for an id encodeURIComponent accepts.
GetPath(id, options) ==
    LET qs == ParamsToString(SetLang(NewParams, options))
    IN  <<"/">> \o EncodeURIComponent(id) \o (IF qs # <<>> THEN <<"?">> \o qs ELSE <<>>)

\* A lookup that sets the code parameter only when the code is not empty.
LookupPathSkipsEmptyCode(id, code, options) ==
    <<"/">> \o EncodeURIComponent(id) \o <<"/", "$", "l", "o", "o", "k", "u", "p", "?">>
        \o ParamsToString(SetLang(IF code # <<>> THEN NewParamsWith(CodeName, code)
                                  ELSE NewParams, options))

\* lookup: the path requested, for an id encodeURIComponent accepts.
LookupPath(id, code, options) ==
    <<"/">> \o EncodeURIComponent(id) \o <<"/", "$", "l", "o", "o", "k", "u", "p", "?">>
        \o ParamsToString(SetLang(NewParamsWith(CodeName, code), options))

\* A search that sets the lang parameter before the q parameter.
SearchPathLangFirst(query, options) ==
    <<"/", "$", "s", "e", "a", "r", "c", "h", "?">>
        \o ParamsToString(ParamsSet(SetLang(NewParams, options), QName, query))

\* search: the path requested.
SearchPath(query, options) ==
    <<"/", "$", "s", "e", "a", "r", "c", "h", "?">>
        \o ParamsToString(SetLang(NewParamsWith(QName, query), options))

\* request: const url = `${this.baseUrl}${path}`.
RequestUrl(base, path) == base \o path

\* request: the message of the error thrown when the body gives none.
HttpMessage(response) ==
    JsString(<<"HTTP ", ToString(response.status), ": ", response.statusText>>)

\* An error body that is kept only when it gives the message.
ParsedErrorBodyOnlyWithMessage(response) ==
    IF JsonParse(response.body).ok
       /\ ~IsNullish(OptionalError(JsonParse(response.body).value))
    THEN JsonParse(response.body).value ELSE Undefined

\* request: body after try { body = await response.json() } catch {}.
ParsedErrorBody(response) ==
    IF JsonParse(response.body).ok THEN JsonParse(response.body).value ELSE Undefined

\* An error whose message is always the generic one.
ResponseErrorGenericMessage(response) ==
    TerminologyClientError(HttpMessage(response), response.status, ParsedErrorBody(response))

\* An error path that lets the failure of response.json() through.
ResponseErrorNoCatch(response) ==
    IF ~JsonParse(response.body).ok THEN JsonSyntaxError
    ELSE TerminologyClientError(
             NullishCoalesce(OptionalError(ParsedErrorBody(response)), HttpMessage(response)),
             response.status, ParsedErrorBody(response))

\* request: the error thrown for a response that is not ok.
ResponseError(response) ==
    LET body == ParsedErrorBody(response)
    IN  TerminologyClientError(NullishCoalesce(OptionalError(body), HttpMessage(response)),
                               response.status, body)

\* ------------------------------------------------------------------ state

VARIABLES
    clientOptions, \* the options the client was constructed with
    baseUrl,    \* this.baseUrl
    fetchFn,    \* this.fetch
    call,       \* the calls made on the client: arguments, position and outcome
    fetchLog,   \* the requests handed to the transport, in order
    answers,    \* what the transport answered, and to which call, in order
    sync        \* the type-sync script: its position and the two directories

vars == <<clientOptions, baseUrl, fetchFn, call, fetchLog, answers, sync>>

Callers == 1..MaxCalls

\* The names a directory entry of src/types may have.
ATs == <<"a", ".", "t", "s">>
BTs == <<"b", ".", "t", "s">>
IndexTs == <<"i", "n", "d", "e", "x", ".", "t", "s">>
AMd == <<"a", ".", "m", "d">>
SyncNames == {ATs, BTs, IndexTs, AMd}

\* A directory: what each name is in it.  A file of the source directory has
\* the content of the standard, a file of the target directory has, before
\* the script runs, the content of the SDK.
NoEntries == [n \in SyncNames |-> "absent"]
SourceDirs == [SyncNames -> {"absent", "dir", "standard file"}]
TargetDirs == [SyncNames -> {"absent", "dir", "sdk file"}]

\* The script before it runs, with the source and the target directory it
\* will find (a directory that does not exist has no entries).
SyncStart(sourceExists, source, targetExists, target) ==
    [pc |-> "start", sourceExists |-> sourceExists, source |-> source,
     targetExists |-> targetExists, target |-> target, targetAtStart |-> target,
     files |-> {}, copied |-> {}, status |-> 0]

\* The script is not run.
SyncNotRun == SyncStart(FALSE, NoEntries, FALSE, NoEntries)

IdleCall ==
    [pc |-> "idle", op |-> "none", id |-> <<>>, code |-> <<>>, query |-> <<>>,
     options |-> NoLang, url |-> <<>>, response |-> NoResponse, reads |-> 0,
     constructed |-> 0, value |-> Undefined, ref |-> 0, error |-> Undefined]

Init ==
    /\ clientOptions \in ClientOptions
    /\ baseUrl = ConstructorBaseUrl(clientOptions)
    /\ fetchFn = ConstructorFetch(clientOptions)
    /\ call = [c \in Callers |-> IdleCall]
    /\ fetchLog = <<>>
    /\ answers = <<>>
    /\ sync = SyncNotRun

client == <<clientOptions, baseUrl, fetchFn>>

\* ---------------------------------------------------------------- request

\* A request that posts the arguments of the call as a JSON body.
RequestPost(c, args, path) ==
    LET url == RequestUrl(baseUrl, path)
    IN  /\ fetchLog' = Append(fetchLog,
                              [by |-> c, via |-> fetchFn, url |-> url, method |-> "POST",
                               accept |-> "application/json",
                               body |-> JsObject([op |-> JsString(<<args.op>>)])])
        /\ call' = [call EXCEPT ![c] =
                      [args EXCEPT !.pc = "fetching", !.url = url]]
        /\ UNCHANGED <<sync, client, answers>>

\* A request whose URL is resolved against the URL of the request made before it.
RequestFromLastUrl(c, args, path) ==
    LET url == RequestUrl(IF fetchLog = <<>> THEN baseUrl ELSE fetchLog[Len(fetchLog)].url,
                          path)
    IN  /\ fetchLog' = Append(fetchLog,
                              [by |-> c, via |-> fetchFn, url |-> url, method |-> "GET",
                               accept |-> "application/json", body |-> Undefined])
        /\ call' = [call EXCEPT ![c] =
                      [args EXCEPT !.pc = "fetching", !.url = url]]
        /\ UNCHANGED <<sync, client, answers>>

\* A request with a deadline that has already passed: the call is rejected
\* with a timeout error without waiting for the transport.
RequestWithDeadline(c, args, path) ==
    LET url == RequestUrl(baseUrl, path)
    IN  /\ fetchLog' = Append(fetchLog,
                              [by |-> c, via |-> fetchFn, url |-> url, method |-> "GET",
                               accept |-> "application/json", body |-> Undefined])
        /\ call' = [call EXCEPT ![c] =
                      [args EXCEPT !.pc = "rejected", !.url = url,
                                   !.error = [kind |-> "TimeoutError",
                                              message |-> <<"timed out">>]]]
        /\ UNCHANGED <<sync, client, answers>>

\* A request that reaches the transport ahead of the requests made before it.
RequestJumpsQueue(c, args, path) ==
    LET url == RequestUrl(baseUrl, path)
    IN  /\ fetchLog' = <<[by |-> c, via |-> fetchFn, url |-> url, method |-> "GET",
                          accept |-> "application/json", body |-> Undefined]>> \o fetchLog
        /\ call' = [call EXCEPT ![c] =
                      [args EXCEPT !.pc = "fetching", !.url = url]]
        /\ UNCHANGED <<sync, client, answers>>

\* request, up to its first await: the URL is built and handed to this.fetch
\* with method GET and the Accept header; the call then awaits the transport.
Request(c, args, path) ==
    LET url == RequestUrl(baseUrl, path)
    IN  /\ fetchLog' = Append(fetchLog,
                              [by |-> c, via |-> fetchFn, url |-> url, method |-> "GET",
                               accept |-> "application/json", body |-> Undefined])
        /\ call' = [call EXCEPT ![c] =
                      [args EXCEPT !.pc = "fetching", !.url = url]]
        /\ UNCHANGED <<sync, client, answers>>

\* An operation whose path cannot be built: the async function's promise is
\* rejected with what was thrown, and request is never entered.
Throw(c, args, error) ==
    /\ call' = [call EXCEPT ![c] = [args EXCEPT !.pc = "rejected", !.error = error]]
    /\ UNCHANGED <<sync, client, fetchLog, answers>>

\* request: the transport's promise is fulfilled with a response. The status
\* is checked and response.json() is called, on the one branch or the other.
RequestFetchFulfilled(c, response) ==
    /\ call[c].pc = "fetching"
    /\ call' = [call EXCEPT ![c].response = response,
                            ![c].reads = @ + 1,
                            ![c].pc = IF ~ResponseOk(response) THEN "readingError"
                                      ELSE "readingResult"]
    /\ answers' = Append(answers, [to |-> c, fulfilled |-> TRUE, response |-> response,
                                   error |-> Undefined])
    /\ UNCHANGED <<sync, client, fetchLog>>

\* A request that asks the transport a second time when the first try fails.
RequestFetchRejectedRetry(c, error) ==
    /\ call[c].pc = "fetching"
    /\ answers' = Append(answers, [to |-> c, fulfilled |-> FALSE, response |-> NoResponse,
                                   error |-> error])
    /\ IF Len(SelectSeq(fetchLog, LAMBDA r : r.by = c)) < 2
       THEN /\ fetchLog' = Append(fetchLog, fetchLog[Len(fetchLog)])
            /\ UNCHANGED call
       ELSE /\ call' = [call EXCEPT ![c].pc = "rejected", ![c].error = error]
            /\ UNCHANGED fetchLog
    /\ UNCHANGED <<sync, client>>

\* A request that wraps the transport's failure in a TerminologyClientError.
RequestFetchRejectedWrapped(c, error) ==
    /\ call[c].pc = "fetching"
    /\ call' = [call EXCEPT ![c].pc = "rejected",
                            ![c].constructed = @ + 1,
                            ![c].error = TerminologyClientError(JsString(error.message),
                                                                0, Undefined)]
    /\ answers' = Append(answers, [to |-> c, fulfilled |-> FALSE, response |-> NoResponse,
                                   error |-> error])
    /\ UNCHANGED <<sync, client, fetchLog>>

\* request: the transport's promise is rejected; await this.fetch(...) throws
\* what it was rejected with, and nothing catches it.  (A substituted
\* transport that throws instead of returning a promise ends the call the
\* same way.)
RequestFetchRejected(c, error) ==
    /\ call[c].pc = "fetching"
    /\ call' = [call EXCEPT ![c].pc = "rejected", ![c].error = error]
    /\ answers' = Append(answers, [to |-> c, fulfilled |-> FALSE, response |-> NoResponse,
                                   error |-> error])
    /\ UNCHANGED <<sync, client, fetchLog>>

\* A response kept in a field of the client, where the latest answer
\* overwrites the earlier ones.
SharedResponse(c) == answers[Len(answers)].response

\* request: const response, a local of the invocation of request for the call c.
LocalResponse(c) == call[c].response

\* A failure branch that does not throw: after the error body was read, the
\* body is read again as if the response were a success.
RequestErrorBodyReadFallsThrough(c) ==
    /\ call[c].pc = "readingError"
    /\ call' = [call EXCEPT ![c].pc = "readingResult", ![c].reads = @ + 1]
    /\ UNCHANGED <<sync, client, fetchLog, answers>>

\* A client that falls back to the public service once a request has failed.
RequestErrorBodyReadFallsBack(c) ==
    /\ call[c].pc = "readingError"
    /\ call' = [call EXCEPT ![c].pc = "rejected",
                            ![c].constructed = @ + 1,
                            ![c].error = ResponseError(LocalResponse(c))]
    /\ baseUrl' = DEFAULT_BASE_URL
    /\ UNCHANGED <<sync, clientOptions, fetchFn, fetchLog, answers>>

\* request: response.json() of a response that is not ok has settled; a parse
\* failure is ignored and a TerminologyClientError is thrown.
RequestErrorBodyRead(c) ==
    /\ call[c].pc = "readingError"
    /\ call' = [call EXCEPT ![c].pc = "rejected",
                            ![c].constructed = @ + 1,
                            ![c].error = ResponseError(LocalResponse(c))]
    /\ UNCHANGED <<sync, client, fetchLog, answers>>

\* A success path that validates the shape: a value with an error field is
\* thrown as an error instead of being returned.
RequestBodyReadValidating(c) ==
    /\ call[c].pc = "readingResult"
    /\ LET parsed == JsonParse(LocalResponse(c).body)
           bad == ~parsed.ok \/ ~IsNullish(OptionalError(parsed.value))
       IN  call' = [call EXCEPT ![c].pc = IF bad THEN "rejected" ELSE "resolved",
                                ![c].value = IF bad THEN Undefined ELSE parsed.value,
                                ![c].error = IF ~parsed.ok THEN JsonSyntaxError
                                             ELSE IF bad THEN ResponseError(LocalResponse(c))
                                             ELSE Undefined]
    /\ UNCHANGED <<sync, client, fetchLog, answers>>

\* A success path that swallows a parse failure and returns undefined.
RequestBodyReadLenient(c) ==
    /\ call[c].pc = "readingResult"
    /\ call' = [call EXCEPT ![c].pc = "resolved",
                            ![c].value = JsonParse(LocalResponse(c).body).value]
    /\ UNCHANGED <<sync, client, fetchLog, answers>>

\* The object that response.json() creates for the invocation c of request:
\* every invocation parses its own response into an object of its own (0
\* stands for no object).
NewObject(c) == c

IsObject(v) == v.kind \in {"object", "array"}

\* A client that keeps the values it returned and returns the kept value to a
\* later call of the same URL.
RequestBodyReadCached(c) ==
    /\ call[c].pc = "readingResult"
    /\ LET parsed == JsonParse(LocalResponse(c).body)
           kept == {d \in Callers : /\ d # c /\ call[d].pc = "resolved"
                                    /\ call[d].url = call[c].url /\ call[d].ref # 0}
       IN  IF kept # {}
           THEN LET d == CHOOSE d \in kept : TRUE
                IN  call' = [call EXCEPT ![c].pc = "resolved",
                                         ![c].value = call[d].value,
                                         ![c].ref = call[d].ref]
           ELSE call' = [call EXCEPT ![c].pc = IF parsed.ok THEN "resolved" ELSE "rejected",
                                     ![c].value = parsed.value,
                                     ![c].ref = IF parsed.ok /\ IsObject(parsed.value)
                                                THEN NewObject(c) ELSE 0,
                                     ![c].error = IF parsed.ok THEN Undefined
                                                  ELSE JsonSyntaxError]
    /\ UNCHANGED <<sync, client, fetchLog, answers>>

\* request: response.json() of an ok response has settled; its value is
\* returned, or its rejection passes to the caller.
RequestBodyRead(c) ==
    /\ call[c].pc = "readingResult"
    /\ LET parsed == JsonParse(LocalResponse(c).body)
       IN  call' = [call EXCEPT ![c].pc = IF parsed.ok THEN "resolved" ELSE "rejected",
                                ![c].value = parsed.value,
                                ![c].ref = IF parsed.ok /\ IsObject(parsed.value)
                                           THEN NewObject(c) ELSE 0,
                                ![c].error = IF parsed.ok THEN Undefined
                                             ELSE JsonSyntaxError]
    /\ UNCHANGED <<sync, client, fetchLog, answers>>

\* ------------------------------------------------------------- operations

\* The calls are numbered in the order they are made: c is the next call.
NextCall(c) == call[c].pc = "idle" /\ \A d \in 1..(c - 1) : call[d].pc # "idle"

Args(op, id, code, query, opts) ==
    [IdleCall EXCEPT !.op = op, !.id = id, !.code = code, !.query = query,
                     !.options = opts]

\* list()
List(c) ==
    /\ NextCall(c)
    /\ Request(c, Args("list", <<>>, <<>>, <<>>, NoLang), ListPath)

\* get(id, options)
Get(c, id, opts) ==
    /\ NextCall(c)
    /\ IF EncodeURIComponentThrows(id)
       THEN Throw(c, Args("get", id, <<>>, <<>>, opts), UriError)
       ELSE Request(c, Args("get", id, <<>>, <<>>, opts), GetPath(id, opts))

\* lookup(id, code, options)
Lookup(c, id, code, opts) ==
    /\ NextCall(c)
    /\ IF EncodeURIComponentThrows(id)
       THEN Throw(c, Args("lookup", id, code, <<>>, opts), UriError)
       ELSE Request(c, Args("lookup", id, code, <<>>, opts), LookupPath(id, code, opts))

\* search(query, options)
Search(c, query, opts) ==
    /\ NextCall(c)
    /\ Request(c, Args("search", <<>>, <<>>, query, opts), SearchPath(query, opts))

\* health()
Health(c) ==
    /\ NextCall(c)
    /\ Request(c, Args("health", <<>>, <<>>, <<>>, NoLang), HealthPath)

\* ------------------------------------------------- the type-sync script

\* f.endsWith(suffix)
StringEndsWith(f, suffix) ==
    Len(suffix) <= Len(f) /\ SubSeq(f, Len(f) - Len(suffix) + 1, Len(f)) = suffix

\* A filter that takes every name that ends in ".ts", index.ts included.
FilterEveryTs(names) == {f \in names : StringEndsWith(f, <<".", "t", "s">>)}

\* .filter((f) => f.endsWith(".ts") && f !== "index.ts")
FilterTypeFiles(names) ==
    {f \in names : StringEndsWith(f, <<".", "t", "s">>) /\ f # IndexTs}

\* readdirSync(dir): the names of the entries of the directory, files and
\* directories alike.
ReadDir(dir) == {n \in SyncNames : dir[n] # "absent"}

\* process.exit(1), or an exception nothing catches: the script ends with
\* exit status 1.
SyncExit == sync' = [sync EXCEPT !.pc = "exited", !.status = 1]

\* if (!existsSync(sourceDir)) process.exit(1)
SyncCheckSource ==
    /\ sync.pc = "start"
    /\ IF ~sync.sourceExists THEN SyncExit
       ELSE sync' = [sync EXCEPT !.pc = "checkTarget"]
    /\ UNCHANGED <<client, call, fetchLog, answers>>

\* if (!existsSync(targetDir)) process.exit(1)
SyncCheckTarget ==
    /\ sync.pc = "checkTarget"
    /\ IF ~sync.targetExists THEN SyncExit
       ELSE sync' = [sync EXCEPT !.pc = "readdir"]
    /\ UNCHANGED <<client, call, fetchLog, answers>>

\* const files = readdirSync(sourceDir).filter(...)
SyncReadDir ==
    /\ sync.pc = "readdir"
    /\ sync' = [sync EXCEPT !.pc = "copying",
                            !.files = FilterTypeFiles(ReadDir(sync.source))]
    /\ UNCHANGED <<client, call, fetchLog, answers>>

\* cpSync(src, dest) with the default options: a file is copied over a file or
\* to a name that is free; a source that is a directory (recursive is not
\* set) and a destination that is a directory make it throw.
CpSyncThrows(src, dest) == src = "dir" \/ dest = "dir"

\* One turn of the loop: the next of the files, in the order readdirSync gave
\* them (any order), is copied; when cpSync throws, the script ends.
SyncCopy(file) ==
    /\ sync.pc = "copying"
    /\ file \in sync.files \ sync.copied
    /\ IF CpSyncThrows(sync.source[file], sync.target[file]) THEN SyncExit
       ELSE sync' = [sync EXCEPT !.target[file] = sync.source[file],
                                 !.copied = @ \cup {file}]
    /\ UNCHANGED <<client, call, fetchLog, answers>>

\* The loop is over: the script ends with exit status 0.
SyncEnd ==
    /\ sync.pc = "copying"
    /\ sync.files = sync.copied
    /\ sync' = [sync EXCEPT !.pc = "done"]
    /\ UNCHANGED <<client, call, fetchLog, answers>>

\* --------------------------------------------------------- specifications

\* The arguments a call is made with.
IdChars == {"a", "/", LoneSurrogate}
ValueChars == {"a", "&", LoneSurrogate}
LangChars == {"a"}
Ids == StringsUpTo(IdChars, MaxLen)
Codes == StringsUpTo(ValueChars, MaxLen)
Queries == StringsUpTo(ValueChars, MaxLen)
LangOptions == {NoLang} \cup {WithLang(l) : l \in StringsUpTo(LangChars, MaxLen)}

\* What the environment does to the call c: the transport settles, and then
\* the body read settles.
Environment(c, responses, errors) ==
    \/ \E response \in responses : RequestFetchFulfilled(c, response)
    \/ \E error \in errors : RequestFetchRejected(c, error)
    \/ RequestErrorBodyRead(c)
    \/ RequestBodyRead(c)

\* One call on a client, with any arguments and any answer of the transport.
Next ==
    \/ List(1)
    \/ \E id \in Ids, opts \in LangOptions : Get(1, id, opts)
    \/ \E id \in Ids, code \in Codes, opts \in LangOptions : Lookup(1, id, code, opts)
    \/ \E query \in Queries, opts \in LangOptions : Search(1, query, opts)
    \/ Health(1)
    \/ Environment(1, Responses, TransportErrors)

Spec == Init /\ [][Next]_vars

\* One call on a client whose transport and body reader always settle in the
\* end: the transport answers every request it was handed, with a response or
\* an error, and response.json() settles once it was called.
SpecLive == Init /\ [][Next]_vars /\ WF_vars(Environment(1, Responses, TransportErrors))

\* Several calls on one client, each made while the earlier ones may still be
\* in flight; the transport answers them in any order.
ConcurrentResponses ==
    {r \in Responses : r.status \in {200, 404} /\ r.body \in {NotJsonBody, ErrorBody}}

InitConc ==
    /\ Init
    /\ clientOptions = [baseUrlGiven |-> TRUE, baseUrl |-> LocalBaseUrl \o <<"/">>,
                        fetchGiven |-> TRUE]

NextConc ==
    \E c \in Callers :
        \/ List(c)
        \/ Get(c, <<"a">>, NoLang)
        \/ Search(c, <<"a">>, WithLang(<<"a">>))
        \/ Environment(c, ConcurrentResponses, {NetworkError})

SpecConc == InitConc /\ [][NextConc]_vars

\* One call of get, lookup or search on one client, with arguments that hold
\* the characters a URL gives a meaning to; the transport answers 200 with
\* the JSON of a code system.
EncIdChars == {"a", "/", "?", "#", "&", "=", "%", LoneSurrogate}
EncValueChars == {"a", "&", "=", "?", "#", "+", " ", LoneSurrogate}
EncLangChars == {"a", "&", LoneSurrogate}
EncIds == StringsUpTo(EncIdChars, MaxLen)
EncValues == StringsUpTo(EncValueChars, MaxLen)
EncLangOptions == {NoLang} \cup {WithLang(l) : l \in StringsUpTo(EncLangChars, MaxLen)}

\* lookup, which takes three arguments, is given fewer langs than get and search.
EncLookupLangOptions == {NoLang, WithLang(<<"a">>), WithLang(<<"&">>)}

OkResponse == [status |-> 200, statusText |-> StatusText(200), body |-> CodeSystemBody]

NextEnc ==
    \/ NextCall(1) /\ \E id \in EncIds, opts \in EncLangOptions : Get(1, id, opts)
    \/ NextCall(1) /\ \E id \in EncIds, code \in EncValues, opts \in EncLookupLangOptions :
                          Lookup(1, id, code, opts)
    \/ NextCall(1) /\ \E query \in EncValues, opts \in EncLangOptions : Search(1, query, opts)
    \/ RequestFetchFulfilled(1, OkResponse)
    \/ RequestBodyRead(1)

SpecEnc == InitConc /\ [][NextEnc]_vars

\* Several calls of the five operations on one client, one after another or
\* while earlier ones are in flight; each is answered 200 with the JSON of a
\* code system or 404 with an error body.
NotFoundResponse == [status |-> 404, statusText |-> StatusText(404), body |-> ErrorBody]
OpsLangOptions == {NoLang, WithLang(<<"a">>)}

NextOps ==
    \E c \in Callers :
        \/ List(c)
        \/ Get(c, <<"a">>, NoLang)
        \/ \E opts \in OpsLangOptions : Lookup(c, <<"a">>, <<"a">>, opts)
        \/ \E opts \in OpsLangOptions : Search(c, <<"a">>, opts)
        \/ Health(c)
        \/ \E response \in {OkResponse, NotFoundResponse} : RequestFetchFulfilled(c, response)
        \/ RequestErrorBodyRead(c)
        \/ RequestBodyRead(c)

SpecOps == InitConc /\ [][NextOps]_vars

\* Several calls of list, health, search and get on one client, where the ids
\* given to get are the names of the fixed paths and an ordinary name; every
\* call is answered 200 with the JSON of a code system.
RouteIds ==
    {<<"a">>,
     <<"l", "i", "s", "t">>,
     <<"h", "e", "a", "l", "t", "h">>,
     <<"$", "s", "e", "a", "r", "c", "h">>,
     <<"$", "s", "e", "a", "r", "c", "h", "?", "q", "=", "a">>}

NextRoutes ==
    \E c \in Callers :
        \/ List(c)
        \/ Health(c)
        \/ \E id \in RouteIds : Get(c, id, NoLang)
        \/ \E opts \in OpsLangOptions : Search(c, <<"a">>, opts)
        \/ RequestFetchFulfilled(c, OkResponse)
        \/ RequestBodyRead(c)

SpecRoutes == InitConc /\ [][NextRoutes]_vars

\* One run of the type-sync script, on any source and target directory.
InitSync ==
    /\ clientOptions = [baseUrlGiven |-> FALSE, baseUrl |-> <<>>, fetchGiven |-> FALSE]
    /\ baseUrl = ConstructorBaseUrl(clientOptions)
    /\ fetchFn = ConstructorFetch(clientOptions)
    /\ call = [c \in Callers |-> IdleCall]
    /\ fetchLog = <<>>
    /\ answers = <<>>
    /\ \/ \E target \in TargetDirs : sync = SyncStart(FALSE, NoEntries, TRUE, target)
       \/ \E source \in SourceDirs : sync = SyncStart(TRUE, source, FALSE, NoEntries)
       \/ sync = SyncStart(FALSE, NoEntries, FALSE, NoEntries)
       \/ \E source \in SourceDirs, target \in TargetDirs :
              sync = SyncStart(TRUE, source, TRUE, target)

NextSync ==
    \/ SyncCheckSource
    \/ SyncCheckTarget
    \/ SyncReadDir
    \/ \E file \in SyncNames : SyncCopy(file)
    \/ SyncEnd

SpecSync == InitSync /\ [][NextSync]_vars

\* ------------------------------------------------------- reading a URL
\* How a server reads a request URL: the path and the query string are split
\* at the first "?", the query string at each "&", a pair at its first "=",
\* and names and values are decoded.  These definitions do not model the
\* client; the properties below use them to say what a URL means.

IsPrefix(p, s) == Len(p) <= Len(s) /\ SubSeq(s, 1, Len(p)) = p

DropFirst(s, n) == SubSeq(s, n + 1, Len(s))

\* The first position of ch in s, or 0.
FirstIndex(s, ch) ==
    IF \E i \in 1..Len(s) : s[i] = ch
    THEN CHOOSE i \in 1..Len(s) : s[i] = ch /\ \A j \in 1..(i - 1) : s[j] # ch
    ELSE 0

Contains(s, ch) == FirstIndex(s, ch) # 0

UrlPath(rest) ==
    IF Contains(rest, "?") THEN SubSeq(rest, 1, FirstIndex(rest, "?") - 1) ELSE rest

UrlQuery(rest) ==
    IF Contains(rest, "?") THEN DropFirst(rest, FirstIndex(rest, "?")) ELSE <<>>

RECURSIVE Split(_, _)
Split(s, sep) ==
    IF ~Contains(s, sep) THEN <<s>>
    ELSE <<SubSeq(s, 1, FirstIndex(s, sep) - 1)>> \o Split(DropFirst(s, FirstIndex(s, sep)), sep)

\* The character two hexadecimal digits stand for.
Unescape(h, l) ==
    CASE <<h, l>> = <<"2", "F">> -> "/"
      [] <<h, l>> = <<"3", "F">> -> "?"
      [] <<h, l>> = <<"2", "6">> -> "&"
      [] <<h, l>> = <<"3", "D">> -> "="
      [] <<h, l>> = <<"2", "5">> -> "%"
      [] <<h, l>> = <<"2", "0">> -> " "
      [] <<h, l>> = <<"2", "B">> -> "+"
      [] <<h, l>> = <<"2", "3">> -> "#"
      [] <<h, l>> = <<"2", "1">> -> "!"
      [] <<h, l>> = <<"2", "4">> -> "$"
      [] <<h, l>> = <<"3", "A">> -> ":"
      [] OTHER -> "<undecodable>"

RECURSIVE PercentDecode(_)
PercentDecode(s) ==
    IF s = <<>> THEN <<>>
    ELSE IF Len(s) >= 9 /\ SubSeq(s, 1, 9) = <<"%", "E", "F", "%", "B", "F", "%", "B", "D">>
    THEN <<ReplacementChar>> \o PercentDecode(DropFirst(s, 9))
    ELSE IF s[1] = "%" /\ Len(s) >= 3
    THEN <<Unescape(s[2], s[3])>> \o PercentDecode(DropFirst(s, 3))
    ELSE <<s[1]>> \o PercentDecode(Tail(s))

\* application/x-www-form-urlencoded decoding: "+" is a space.
FormDecode(s) == PercentDecode([i \in 1..Len(s) |-> IF s[i] = "+" THEN " " ELSE s[i]])

\* The name-value pairs of a query string.
QueryPairs(query) ==
    IF query = <<>> THEN <<>>
    ELSE LET parts == Split(query, "&")
         IN  [i \in 1..Len(parts) |->
                IF Contains(parts[i], "=")
                THEN <<FormDecode(SubSeq(parts[i], 1, FirstIndex(parts[i], "=") - 1)),
                       FormDecode(DropFirst(parts[i], FirstIndex(parts[i], "=")))>>
                ELSE <<FormDecode(parts[i]), <<>>>>]

\* s is one path segment that stands for the string id: no character of it
\* ends the segment or starts a query string or a fragment, and it decodes to id.
IsSegmentFor(s, id) ==
    /\ \A i \in 1..Len(s) : s[i] \notin {"/", "?", "#"}
    /\ PercentDecode(s) = id

WellFormed(s) == \A i \in 1..Len(s) : s[i] # LoneSurrogate

\* ------------------------------------------------------------- properties

\* The requests the call c handed to the transport.
RequestsBy(c) == SelectSeq(fetchLog, LAMBDA r : r.by = c)

\* The part of the requested URL of the call c that follows the base URL.
RestOf(c) == DropFirst(RequestsBy(c)[1].url, Len(baseUrl))

Made(c) == call[c].pc # "idle"
Settled(c) == call[c].pc \in {"resolved", "rejected"}

\* get(id) of a valid id made one request, to baseUrl + "/" + the encoded id.
GetRequestedId(c) ==
    /\ Len(RequestsBy(c)) = 1
    /\ IsPrefix(baseUrl, RequestsBy(c)[1].url)
    /\ Len(UrlPath(RestOf(c))) >= 1
    /\ UrlPath(RestOf(c))[1] = "/"
    /\ IsSegmentFor(Tail(UrlPath(RestOf(c))), call[c].id)

\* The URL of the call c has no query string at all.
NoQueryString(c) == ~Contains(RestOf(c), "?")

\* The query string of the call c is "lang=<lang>" and nothing else.
OnlyLangQuery(c) ==
    /\ Contains(RestOf(c), "?")
    /\ IsPrefix(LangName \o <<"=">>, UrlQuery(RestOf(c)))
    /\ QueryPairs(UrlQuery(RestOf(c))) = <<<<LangName, call[c].options.lang>>>>

ValidGet(c) == call[c].op = "get" /\ call[c].id # <<>> /\ WellFormed(call[c].id)

\* C1, as stated: for every valid (non-empty) id, get(id, {lang?}) hands the
\* transport exactly one request, to baseUrl + "/" + the percent-encoded id,
\* with no query string when lang is omitted and with "?lang=<lang>" whenever
\* lang is provided.
C1_AsStated ==
    \A c \in Callers :
        ValidGet(c) =>
            /\ GetRequestedId(c)
            /\ IF call[c].options.langGiven THEN OnlyLangQuery(c) ELSE NoQueryString(c)

\* C1, amended: for every valid (non-empty, well-formed) id, get(id, {lang?})
\* hands the transport exactly one request, to baseUrl + "/" + the
\* percent-encoded id, with no query string when lang is omitted or is the
\* empty string, and with "?lang=<lang>" (lang form-urlencoded) when lang is a
\* non-empty string.
C1_GetUrl ==
    \A c \in Callers :
        ValidGet(c) =>
            /\ GetRequestedId(c)
            /\ IF call[c].options.langGiven /\ call[c].options.lang # <<>>
               THEN OnlyLangQuery(c)
               ELSE NoQueryString(c)

\* A get of the id "/" with the lang "a" has resolved.
C1_Witness ==
    \E c \in Callers :
        /\ call[c].op = "get" /\ call[c].id = <<"/">>
        /\ call[c].options = WithLang(<<"a">>)
        /\ call[c].pc = "resolved"

LookupSuffix == <<"/", "$", "l", "o", "o", "k", "u", "p">>

\* The path of the call c is "/" + one segment standing for its id + "/$lookup".
LookupPathFor(c) ==
    LET path == UrlPath(RestOf(c))
        n == Len(path) - Len(LookupSuffix)
    IN  /\ n >= 1
        /\ path[1] = "/"
        /\ DropFirst(path, n) = LookupSuffix
        /\ IsSegmentFor(SubSeq(path, 2, n), call[c].id)

\* The values of the parameters called name in the query string of the call c.
ParamValues(c, name) ==
    LET pairs == QueryPairs(UrlQuery(RestOf(c)))
    IN  [i \in 1..Len(SelectSeq(pairs, LAMBDA p : p[1] = name)) |->
           SelectSeq(pairs, LAMBDA p : p[1] = name)[i][2]]

\* A string as the scalar values a URL can carry: U+FFFD for each unpaired surrogate.
AsScalarValues(s) ==
    [i \in 1..Len(s) |-> IF s[i] = LoneSurrogate THEN ReplacementChar ELSE s[i]]

LookupRequested(c) == call[c].op = "lookup" /\ Len(RequestsBy(c)) >= 1

\* C2, as stated: for every id and every code, the URL requested by
\* lookup(id, code, {lang?}) has the path /{id}/$lookup and a query string
\* holding the parameter code with the value code, with or without lang.
C2_AsStated ==
    \A c \in Callers :
        LookupRequested(c) =>
            /\ LookupPathFor(c)
            /\ ParamValues(c, CodeName) = <<call[c].code>>

\* C2, amended: for every id a request is made for and every code (the empty
\* string included), the URL requested by lookup(id, code, {lang?}) has the
\* path /{id}/$lookup and a query string holding exactly one parameter code,
\* whose value is code with each unpaired surrogate replaced by U+FFFD (so it
\* is code itself for every well-formed code), with or without lang.
C2_LookupHasCode ==
    \A c \in Callers :
        LookupRequested(c) =>
            /\ LookupPathFor(c)
            /\ Contains(RestOf(c), "?")
            /\ ParamValues(c, CodeName) = <<AsScalarValues(call[c].code)>>
            /\ WellFormed(call[c].code) => ParamValues(c, CodeName) = <<call[c].code>>

\* A lookup with the empty code and a lang has resolved.
C2_Witness ==
    \E c \in Callers :
        /\ call[c].op = "lookup" /\ call[c].code = <<>> /\ call[c].id = <<"/">>
        /\ call[c].options = WithLang(<<"a">>)
        /\ call[c].pc = "resolved"

\* What the transport answered to the call c (once it has answered).
Answered(c) == \E i \in 1..Len(answers) : answers[i].to = c
AnswerTo(c) == answers[CHOOSE i \in 1..Len(answers) : answers[i].to = c]
GotResponse(c) == Answered(c) /\ AnswerTo(c).fulfilled

Is2xx(status) == status >= 200 /\ status <= 299

\* The body text is JSON for an object with a string in its error field.
HasErrorMessage(text) ==
    /\ JsonParse(text).ok
    /\ JsonParse(text).value.kind = "object"
    /\ "error" \in DOMAIN JsonParse(text).value.fields
    /\ JsonParse(text).value.fields["error"].kind = "string"

\* C3: for any operation, a response that is not 2xx and whose body is JSON
\* with an error field makes the call fail with a TerminologyClientError whose
\* message is body.error, whose status is the response's status and whose
\* body is the parsed body; the call never resolves.
C3_ErrorFromBody ==
    \A c \in Callers :
        (GotResponse(c) /\ ~Is2xx(AnswerTo(c).response.status)
                        /\ HasErrorMessage(AnswerTo(c).response.body)) =>
            /\ call[c].pc \in {"readingError", "rejected"}
            /\ call[c].pc = "rejected" =>
                /\ call[c].error.kind = "TerminologyClientError"
                /\ call[c].error.name = "TerminologyClientError"
                /\ call[c].error.message =
                       JsonParse(AnswerTo(c).response.body).value.fields["error"].text
                /\ call[c].error.status = AnswerTo(c).response.status
                /\ call[c].error.body = JsonParse(AnswerTo(c).response.body).value

\* A get answered 404 with {"error":"not found"} has failed with the message
\* "not found".
C3_Witness ==
    \E c \in Callers :
        /\ call[c].op = "get" /\ call[c].pc = "rejected"
        /\ GotResponse(c)
        /\ AnswerTo(c).response.status = 404 /\ AnswerTo(c).response.body = ErrorBody
        /\ call[c].error.message = <<"not found">>

\* C4: for any operation, a response that is not 2xx and whose body is not
\* JSON makes the call fail with a TerminologyClientError whose message is
\* "HTTP <status>: <statusText>", whose status is the response's status and
\* whose body is absent; the parse error does not reach the caller.
C4_FallbackMessage ==
    \A c \in Callers :
        (GotResponse(c) /\ ~Is2xx(AnswerTo(c).response.status)
                        /\ ~JsonParse(AnswerTo(c).response.body).ok) =>
            /\ call[c].pc \in {"readingError", "rejected"}
            /\ call[c].pc = "rejected" =>
                /\ call[c].error.kind = "TerminologyClientError"
                /\ call[c].error.message =
                       <<"HTTP ", ToString(AnswerTo(c).response.status), ": ",
                         AnswerTo(c).response.statusText>>
                /\ call[c].error.status = AnswerTo(c).response.status
                /\ call[c].error.body = Undefined

\* A search answered 500 with a body that is not JSON has failed with the
\* message "HTTP 500: Internal Server Error".
C4_Witness ==
    \E c \in Callers :
        /\ call[c].op = "search" /\ call[c].pc = "rejected"
        /\ GotResponse(c)
        /\ AnswerTo(c).response.status = 500 /\ AnswerTo(c).response.body = NotJsonBody
        /\ call[c].error.message = <<"HTTP ", "500", ": ", "Internal Server Error">>

\* C5: a 2xx response with a well-formed JSON body makes every operation
\* return exactly the value the body parses to, whatever its shape (a value
\* shaped like an error body included); the call never fails.
C5_ReturnsParsedBody ==
    \A c \in Callers :
        (GotResponse(c) /\ Is2xx(AnswerTo(c).response.status)
                        /\ JsonParse(AnswerTo(c).response.body).ok) =>
            /\ call[c].pc \in {"readingResult", "resolved"}
            /\ call[c].pc = "resolved" =>
                /\ call[c].value = JsonParse(AnswerTo(c).response.body).value
                /\ call[c].error = Undefined
                /\ call[c].constructed = 0

\* A get answered 200 with {"error":"not found"} has returned that object.
C5_Witness ==
    \E c \in Callers :
        /\ call[c].op = "get" /\ call[c].pc = "resolved"
        /\ GotResponse(c)
        /\ AnswerTo(c).response.status = 200 /\ AnswerTo(c).response.body = ErrorBody
        /\ call[c].value = JsObject([error |-> JsString(<<"not found">>)])

EndsWith(s, suffix) ==
    Len(suffix) <= Len(s) /\ DropFirst(s, Len(s) - Len(suffix)) = suffix

GivenBaseUrlEndsInSlash ==
    clientOptions.baseUrlGiven /\ EndsWith(clientOptions.baseUrl, <<"/">>)

\* C6, as stated: a client constructed with a baseUrl that ends in a slash
\* sends list() to that baseUrl without the slash + "/list", never to a URL
\* with a double slash before the path.
C6_AsStated ==
    \A c \in Callers :
        (GivenBaseUrlEndsInSlash /\ call[c].op = "list") =>
            /\ Len(RequestsBy(c)) = 1
            /\ RequestsBy(c)[1].url =
                   SubSeq(clientOptions.baseUrl, 1, Len(clientOptions.baseUrl) - 1)
                       \o <<"/", "l", "i", "s", "t">>
            /\ ~EndsWith(RequestsBy(c)[1].url, <<"/", "/", "l", "i", "s", "t">>)

\* C6 holds of the base URLs that end in exactly one slash, such as
\* "http://localhost:8787/".
C6_OneSlash ==
    \A c \in Callers :
        (GivenBaseUrlEndsInSlash /\ ~EndsWith(clientOptions.baseUrl, <<"/", "/">>)
                                 /\ call[c].op = "list") =>
            /\ Len(RequestsBy(c)) = 1
            /\ RequestsBy(c)[1].url =
                   SubSeq(clientOptions.baseUrl, 1, Len(clientOptions.baseUrl) - 1)
                       \o <<"/", "l", "i", "s", "t">>
            /\ ~EndsWith(RequestsBy(c)[1].url, <<"/", "/", "l", "i", "s", "t">>)

\* The outcome a call has when the transport answers it with answer.
OutcomeOf(answer) ==
    IF ~answer.fulfilled
    THEN [pc |-> "rejected", value |-> Undefined, error |-> answer.error]
    ELSE IF ~Is2xx(answer.response.status)
    THEN [pc |-> "rejected", value |-> Undefined, error |-> ResponseError(answer.response)]
    ELSE IF JsonParse(answer.response.body).ok
    THEN [pc |-> "resolved", value |-> JsonParse(answer.response.body).value,
          error |-> Undefined]
    ELSE [pc |-> "rejected", value |-> Undefined, error |-> JsonSyntaxError]

\* C7: calls issued concurrently on one client do not interfere: under every
\* interleaving and every order of the answers, a settled call has the result
\* or the error derived from the answer to its own request, whatever the
\* other calls were answered and however they ended; and a call settles only
\* after its own request was answered.
C7_NoInterference ==
    \A c \in Callers :
        /\ Settled(c) =>
              /\ Answered(c)
              /\ [pc |-> call[c].pc, value |-> call[c].value, error |-> call[c].error]
                     = OutcomeOf(AnswerTo(c))
        /\ Made(c) => /\ Len(RequestsBy(c)) = 1
                      /\ RequestsBy(c)[1].url = call[c].url

\* list() and search() were in flight together, search was answered first and
\* failed, and list, answered after it, returned its own result.
C7_Witness ==
    /\ call[1].op = "list" /\ call[2].op = "search"
    /\ Len(answers) >= 2 /\ answers[1].to = 2 /\ answers[2].to = 1
    /\ call[2].pc = "rejected" /\ call[2].error.kind = "TerminologyClientError"
    /\ call[1].pc = "resolved"
    /\ call[1].value = JsObject([error |-> JsString(<<"not found">>)])

\* The path of the call c cannot be built: encodeURIComponent throws on its id.
Unencodable(c) == call[c].op \in {"get", "lookup"} /\ ~WellFormed(call[c].id)

\* C8, as stated: every call of list, get, lookup, search or health invokes
\* the transport exactly once, never zero times and never a second time.
C8_AsStated == \A c \in Callers : Made(c) => Len(RequestsBy(c)) = 1

\* C8, amended: every call of list, search or health, and every call of get
\* or lookup whose id has no unpaired surrogate, invokes the transport exactly
\* once, at the moment it is made, and never a second time, whether the
\* transport fails, the response is not 2xx or the body does not parse; a get
\* or lookup whose id has an unpaired surrogate fails with a URIError and
\* never invokes the transport.
C8_ExactlyOneRequest ==
    \A c \in Callers :
        /\ (Made(c) /\ ~Unencodable(c)) => Len(RequestsBy(c)) = 1
        /\ (Made(c) /\ Unencodable(c)) =>
              /\ Len(RequestsBy(c)) = 0
              /\ call[c].pc = "rejected" /\ call[c].error = UriError
        /\ ~Made(c) => Len(RequestsBy(c)) = 0

\* A lookup failed because the transport failed, and made one request.
C8_Witness ==
    \E c \in Callers :
        /\ call[c].op = "lookup" /\ call[c].pc = "rejected"
        /\ Answered(c) /\ ~AnswerTo(c).fulfilled
        /\ Len(RequestsBy(c)) = 1

\* C9: when the transport's promise rejects, the call fails with that very
\* error, unchanged; no TerminologyClientError is constructed and no response
\* body is read.
C9_TransportErrorUnchanged ==
    \A c \in Callers :
        (Answered(c) /\ ~AnswerTo(c).fulfilled) =>
            /\ call[c].pc = "rejected"
            /\ call[c].error = AnswerTo(c).error
            /\ call[c].constructed = 0
            /\ call[c].reads = 0

\* A health call failed with the error the substituted transport rejected with.
C9_Witness ==
    \E c \in Callers :
        /\ call[c].op = "health" /\ call[c].pc = "rejected"
        /\ Answered(c) /\ ~AnswerTo(c).fulfilled
        /\ call[c].error = StubError

\* The call c failed with the transport's own error.
FailedWithTransportError(c) ==
    /\ Answered(c) /\ ~AnswerTo(c).fulfilled
    /\ call[c].error = AnswerTo(c).error
    /\ call[c].constructed = 0

\* The call c failed with a TerminologyClientError constructed by the client,
\* carrying a message, a status and an optional body.
FailedWithClientError(c) ==
    /\ call[c].constructed = 1
    /\ call[c].error.kind = "TerminologyClientError"
    /\ DOMAIN call[c].error = {"kind", "name", "message", "status", "body"}

\* C10, as stated: every call that fails after handing its request to the
\* transport, for any behaviour of the transport and any response, fails
\* with the transport's own error or with a constructed
\* TerminologyClientError, and with no other kind of error.
C10_AsStated ==
    \A c \in Callers :
        (call[c].pc = "rejected" /\ Len(RequestsBy(c)) = 1) =>
            FailedWithTransportError(c) \/ FailedWithClientError(c)

\* C10, amended: a call that fails fails with one of four errors: the
\* transport's own error, unchanged; a TerminologyClientError constructed for
\* a response that is not 2xx; the body reader's own error, for a 2xx response
\* whose body is not JSON; or the URIError of encodeURIComponent, for a get or
\* lookup whose id has an unpaired surrogate.
C10_ErrorKinds ==
    \A c \in Callers :
        call[c].pc = "rejected" =>
            \/ FailedWithTransportError(c)
            \/ /\ FailedWithClientError(c)
               /\ GotResponse(c) /\ ~Is2xx(AnswerTo(c).response.status)
            \/ /\ call[c].error = JsonSyntaxError /\ call[c].constructed = 0
               /\ GotResponse(c) /\ Is2xx(AnswerTo(c).response.status)
               /\ ~JsonParse(AnswerTo(c).response.body).ok
            \/ /\ call[c].error = UriError /\ call[c].constructed = 0
               /\ Unencodable(c) /\ Len(RequestsBy(c)) = 0

\* A list call answered 200 with a body that is not JSON has failed with the
\* body reader's SyntaxError.
C10_Witness ==
    \E c \in Callers :
        /\ call[c].op = "list" /\ call[c].pc = "rejected"
        /\ GotResponse(c) /\ AnswerTo(c).response.status = 200
        /\ AnswerTo(c).response.body = NotJsonBody
        /\ call[c].error.kind = "SyntaxError"

\* C11: the status alone decides the outcome.  A call answered with a status
\* outside 200..299 fails, whatever the body, with a TerminologyClientError
\* whose status is that status; a call answered with a status in 200..299
\* never fails with a TerminologyClientError; so no TerminologyClientError
\* has a status in 200..299.
C11_StatusClassifies ==
    \A c \in Callers :
        /\ (GotResponse(c) /\ ~Is2xx(AnswerTo(c).response.status)) =>
              /\ call[c].pc \in {"readingError", "rejected"}
              /\ call[c].pc = "rejected" =>
                    /\ call[c].error.kind = "TerminologyClientError"
                    /\ call[c].error.status = AnswerTo(c).response.status
        /\ (GotResponse(c) /\ Is2xx(AnswerTo(c).response.status)) =>
              /\ call[c].pc \in {"readingResult", "resolved", "rejected"}
              /\ call[c].error.kind # "TerminologyClientError"
              /\ call[c].constructed = 0
        /\ call[c].error.kind = "TerminologyClientError" => ~Is2xx(call[c].error.status)

\* A lookup answered 300 with the JSON of a code system has failed with a
\* TerminologyClientError of status 300.
C11_Witness ==
    \E c \in Callers :
        /\ call[c].op = "lookup" /\ call[c].pc = "rejected"
        /\ GotResponse(c)
        /\ AnswerTo(c).response.status = 300 /\ AnswerTo(c).response.body = CodeSystemBody
        /\ call[c].error.kind = "TerminologyClientError"
        /\ call[c].error.status = 300

\* The URL u has "//" somewhere after the "://" of its scheme.
DoubleSlashInPath(u) ==
    \E j \in 2..(Len(u) - 1) : u[j] = "/" /\ u[j + 1] = "/" /\ u[j - 1] # ":"

\* C12, as stated: for every baseUrl given to the constructor, with no, one
\* or several trailing slashes, the stored baseUrl does not end with "/", and
\* so no request URL has "//" where the base URL and the path meet.
C12_AsStated ==
    /\ ~EndsWith(baseUrl, <<"/">>)
    /\ \A i \in 1..Len(fetchLog) : ~DoubleSlashInPath(fetchLog[i].url)

\* The call c is a get, lookup or search that handed a request to the transport.
TakesLang(c) == call[c].op \in {"get", "lookup", "search"} /\ Len(RequestsBy(c)) = 1

\* C13, as stated: in get, lookup and search, whenever the caller provides a
\* lang, whatever string it is, the query string holds lang=<value>, the
\* value as given; without a lang the query string holds no lang parameter.
C13_AsStated ==
    \A c \in Callers :
        TakesLang(c) =>
            ParamValues(c, LangName) =
                (IF call[c].options.langGiven THEN <<call[c].options.lang>> ELSE <<>>)

\* C13, amended: in get, lookup and search, a lang that is a non-empty string
\* is sent as exactly one parameter lang=<value>, whose value is the lang
\* given with each unpaired surrogate replaced by U+FFFD (so the lang itself
\* when it is well-formed); a lang that is omitted or is the empty string
\* sends no lang parameter.
C13_LangParameter ==
    \A c \in Callers :
        TakesLang(c) =>
            /\ LangTruthy(call[c].options) =>
                  /\ ParamValues(c, LangName) = <<AsScalarValues(call[c].options.lang)>>
                  /\ WellFormed(call[c].options.lang) =>
                        ParamValues(c, LangName) = <<call[c].options.lang>>
            /\ ~LangTruthy(call[c].options) => ParamValues(c, LangName) = <<>>

\* A search made with the lang "&" has resolved; its request holds that lang.
C13_Witness ==
    \E c \in Callers :
        /\ call[c].op = "search" /\ call[c].options = WithLang(<<"&">>)
        /\ call[c].pc = "resolved"
        /\ ParamValues(c, LangName) = <<<<"&">>>>

\* The calls c and d are calls of the same operation with equal arguments.
SameCall(c, d) ==
    /\ call[c].op = call[d].op /\ call[c].id = call[d].id /\ call[c].code = call[d].code
    /\ call[c].query = call[d].query /\ call[c].options = call[d].options

\* The names of the parameters of the query string of the call c, in order.
ParamNames(c) ==
    LET pairs == QueryPairs(UrlQuery(RestOf(c)))
    IN  [i \in 1..Len(pairs) |-> pairs[i][1]]

SearchPrefix == <<"/", "$", "s", "e", "a", "r", "c", "h", "?", "q", "=">>

\* C14: request URLs are reproducible.  Two calls with equal arguments request
\* the same URL, whatever happened in between; lookup puts code before lang;
\* search requests baseUrl + "/$search?q=<query>", followed by "&lang=<lang>"
\* only when a lang is given, so q is always there and comes first.
C14_ReproducibleUrls ==
    /\ \A c, d \in Callers :
          (SameCall(c, d) /\ Len(RequestsBy(c)) = 1 /\ Len(RequestsBy(d)) = 1) =>
              RequestsBy(c)[1].url = RequestsBy(d)[1].url
    /\ \A c \in Callers :
          (call[c].op = "lookup" /\ Len(RequestsBy(c)) = 1) =>
              /\ ParamNames(c) \in {<<CodeName>>, <<CodeName, LangName>>}
              /\ ParamNames(c) = <<CodeName, LangName>> => call[c].options.langGiven
    /\ \A c \in Callers :
          (call[c].op = "search" /\ Len(RequestsBy(c)) = 1) =>
              /\ IsPrefix(baseUrl \o SearchPrefix, RequestsBy(c)[1].url)
              /\ ParamNames(c) \in {<<QName>>, <<QName, LangName>>}
              /\ ParamNames(c) = <<QName, LangName>> => call[c].options.langGiven
              /\ call[c].query = <<"a">> =>
                    RestOf(c) = SearchPrefix \o <<"a">> \o
                        (IF call[c].options = WithLang(<<"a">>)
                         THEN <<"&", "l", "a", "n", "g", "=", "a">> ELSE <<>>)

\* Two searches for "a" with the lang "a" were made on the client; the first
\* failed, the second returned a result, and both requested the same URL.
C14_Witness ==
    /\ call[1].op = "search" /\ call[2].op = "search"
    /\ call[1].options = WithLang(<<"a">>) /\ call[2].options = WithLang(<<"a">>)
    /\ call[1].pc = "rejected" /\ call[2].pc = "resolved"
    /\ RequestsBy(1)[1].url = RequestsBy(2)[1].url

\* The part of the URL of the request r that follows the base URL is the path
\* of the operation of the call that made it.
PathOfOperation(r) ==
    LET c == r.by
        rest == DropFirst(r.url, Len(baseUrl))
    IN  CASE call[c].op = "list" -> rest = <<"/", "l", "i", "s", "t">>
          [] call[c].op = "health" -> rest = <<"/", "h", "e", "a", "l", "t", "h">>
          [] call[c].op = "get" ->
                 /\ Len(UrlPath(rest)) >= 1 /\ UrlPath(rest)[1] = "/"
                 /\ IsSegmentFor(Tail(UrlPath(rest)), call[c].id)
                 /\ \A i \in 1..Len(ParamNames(c)) : ParamNames(c)[i] = LangName
          [] call[c].op = "lookup" ->
                 /\ LookupPathFor(c)
                 /\ \A i \in 1..Len(ParamNames(c)) : ParamNames(c)[i] \in {CodeName, LangName}
          [] call[c].op = "search" ->
                 /\ UrlPath(rest) = <<"/", "$", "s", "e", "a", "r", "c", "h">>
                 /\ \A i \in 1..Len(ParamNames(c)) : ParamNames(c)[i] \in {QName, LangName}
          [] OTHER -> FALSE

\* C15: every request an operation hands to the transport uses the method
\* GET, carries the header Accept: application/json and no body, and its URL
\* is the client's base URL followed by the path of the operation.
C15_GetRequests ==
    \A i \in 1..Len(fetchLog) :
        /\ fetchLog[i].method = "GET"
        /\ fetchLog[i].accept = "application/json"
        /\ fetchLog[i].body = Undefined
        /\ fetchLog[i].via = fetchFn
        /\ IsPrefix(baseUrl, fetchLog[i].url)
        /\ fetchLog[i].url = call[fetchLog[i].by].url
        /\ PathOfOperation(fetchLog[i])

\* A lookup on a client of the default base URL handed the transport a GET
\* for https://bind.codes/a/$lookup?code=%26&lang=a.
C15_Witness ==
    /\ ~clientOptions.baseUrlGiven
    /\ Len(fetchLog) = 1
    /\ call[fetchLog[1].by].op = "lookup"
    /\ fetchLog[1].method = "GET"
    /\ fetchLog[1].url =
           DEFAULT_BASE_URL \o <<"/", "a", "/", "$", "l", "o", "o", "k", "u", "p", "?",
                                 "c", "o", "d", "e", "=", "%", "2", "6",
                                 "&", "l", "a", "n", "g", "=", "a">>

\* The call c made one request, to the base URL the constructor stored
\* followed by path, with no query string.
RequestedExactly(c, path) ==
    /\ Len(RequestsBy(c)) = 1
    /\ RequestsBy(c)[1].url = baseUrl \o path
    /\ RequestsBy(c)[1].url = ConstructorBaseUrl(clientOptions) \o path
    /\ ~Contains(RequestsBy(c)[1].url, "?")

\* C16: list() always requests baseUrl + "/list" and health() always requests
\* baseUrl + "/health", with no query string, whatever calls were made on the
\* client before and however they ended.
C16_ListAndHealth ==
    \A c \in Callers :
        /\ call[c].op = "list" => RequestedExactly(c, <<"/", "l", "i", "s", "t">>)
        /\ call[c].op = "health" => RequestedExactly(c, <<"/", "h", "e", "a", "l", "t", "h">>)

\* After a search with a lang that failed, health() requested
\* http://localhost:8787/health and returned a result.
C16_Witness ==
    /\ call[1].op = "search" /\ call[1].options = WithLang(<<"a">>)
    /\ call[1].pc = "rejected"
    /\ call[2].op = "health" /\ call[2].pc = "resolved"
    /\ RequestsBy(2)[1].url = LocalBaseUrl \o <<"/", "h", "e", "a", "l", "t", "h">>

\* The path an operation builds from the arguments a of a call.
PathFromArguments(a) ==
    CASE a.op = "list" -> ListPath
      [] a.op = "health" -> HealthPath
      [] a.op = "get" -> GetPath(a.id, a.options)
      [] a.op = "lookup" -> LookupPath(a.id, a.code, a.options)
      [] a.op = "search" -> SearchPath(a.query, a.options)

\* C17: the client holds no mutable state.  After any sequence of calls,
\* made one after another or together, failed or not, baseUrl and the
\* transport are what the constructor captured; and the request of a call is
\* determined by that configuration and its own arguments, so calls with
\* equal arguments hand the transport equal requests.
C17_NoMutableState ==
    /\ baseUrl = ConstructorBaseUrl(clientOptions)
    /\ fetchFn = ConstructorFetch(clientOptions)
    /\ \A i \in 1..Len(fetchLog) :
          /\ fetchLog[i].via = ConstructorFetch(clientOptions)
          /\ fetchLog[i].url = ConstructorBaseUrl(clientOptions)
                                   \o PathFromArguments(call[fetchLog[i].by])
    /\ \A c, d \in Callers :
          (SameCall(c, d) /\ Len(RequestsBy(c)) = 1 /\ Len(RequestsBy(d)) = 1) =>
              [RequestsBy(c)[1] EXCEPT !.by = d] = RequestsBy(d)[1]

\* Two lookups with equal arguments were in flight together; the second was
\* answered first and returned a result, the first failed, and the client
\* still has the base URL and the transport it was constructed with.
C17_Witness ==
    /\ call[1].op = "lookup" /\ call[2].op = "lookup" /\ SameCall(1, 2)
    /\ Len(answers) = 2 /\ answers[1].to = 2
    /\ call[1].pc = "rejected" /\ call[2].pc = "resolved"
    /\ baseUrl = LocalBaseUrl /\ fetchFn = "options.fetch"

\* The number of times the character ch occurs in s.
CountOf(s, ch) == Cardinality({i \in 1..Len(s) : s[i] = ch})

HexDigits == {"0", "1", "2", "3", "4", "5", "6", "7", "8", "9", "A", "B", "C", "D", "E", "F"}

\* seg is one path segment in which the string id is escaped: it has none of
\* the characters / ? # & = in it, every % of it starts an escape of two
\* hexadecimal digits, and it decodes to id.
EscapedSegment(seg, id) ==
    /\ \A i \in 1..Len(seg) : seg[i] \notin {"/", "?", "#", "&", "="}
    /\ \A i \in 1..Len(seg) :
          seg[i] = "%" => /\ i + 2 <= Len(seg)
                          /\ seg[i + 1] \in HexDigits /\ seg[i + 2] \in HexDigits
    /\ PercentDecode(seg) = id

\* C18: the id is percent-encoded as one path segment.  For every id a
\* request is made for, the characters / ? # & = % of the id are escaped: the
\* path of get(id) has exactly one "/", its first character, and the path of
\* lookup(id, code) has exactly two before the "?"; the id adds no path
\* segment, and it neither starts a query string nor adds a parameter to it.
C18_SingleSegment ==
    \A c \in Callers :
        /\ (call[c].op = "get" /\ Len(RequestsBy(c)) = 1) =>
              LET path == UrlPath(RestOf(c))
              IN  /\ Len(path) >= 1 /\ path[1] = "/"
                  /\ CountOf(path, "/") = 1
                  /\ EscapedSegment(Tail(path), call[c].id)
                  /\ Contains(RestOf(c), "?") <=> LangTruthy(call[c].options)
                  /\ CountOf(RestOf(c), "?") <= 1
                  /\ ParamNames(c) \in {<<>>, <<LangName>>}
                  /\ ~Contains(RestOf(c), "#")
        /\ (call[c].op = "lookup" /\ Len(RequestsBy(c)) = 1) =>
              LET path == UrlPath(RestOf(c))
                  n == Len(path) - Len(LookupSuffix)
              IN  /\ n >= 1 /\ path[1] = "/"
                  /\ CountOf(path, "/") = 2
                  /\ DropFirst(path, n) = LookupSuffix
                  /\ EscapedSegment(SubSeq(path, 2, n), call[c].id)
                  /\ CountOf(RestOf(c), "?") = 1
                  /\ ParamNames(c) \in {<<CodeName>>, <<CodeName, LangName>>}
                  /\ ~Contains(RestOf(c), "#")

\* A lookup of the id "?" requested the path /%3F/$lookup and has resolved.
C18_Witness ==
    \E c \in Callers :
        /\ call[c].op = "lookup" /\ call[c].id = <<"?">> /\ call[c].pc = "resolved"
        /\ UrlPath(RestOf(c)) = <<"/", "%", "3", "F">> \o LookupSuffix

\* The value the call c gave for its code (lookup) or q (search) parameter,
\* and the name of that parameter.
MainName(c) == IF call[c].op = "lookup" THEN CodeName ELSE QName
MainValue(c) == IF call[c].op = "lookup" THEN call[c].code ELSE call[c].query

TakesValue(c) == call[c].op \in {"lookup", "search"} /\ Len(RequestsBy(c)) = 1

\* The query string of the call c has the parameters of the operation and no
\* other: code or q once and first, then lang at most once.
OnlyOwnParameters(c) ==
    /\ ParamNames(c) \in {<<MainName(c)>>, <<MainName(c), LangName>>}
    /\ ParamNames(c) = <<MainName(c), LangName>> => call[c].options.langGiven

\* C19, as stated: the code, q and lang values round-trip.  For every value,
\* decoding the query string of the request gives exactly one code (resp. q)
\* parameter, equal to the value given, and at most one lang parameter,
\* equal to the lang given; no value adds or overrides a parameter.
C19_AsStated ==
    \A c \in Callers :
        TakesValue(c) =>
            /\ OnlyOwnParameters(c)
            /\ ParamValues(c, MainName(c)) = <<MainValue(c)>>
            /\ ParamValues(c, LangName) \in {<<>>, <<call[c].options.lang>>}

\* C19, amended: for every value without an unpaired surrogate, decoding the
\* query string gives exactly one code (resp. q) parameter equal to the value
\* given and at most one lang parameter equal to the lang given; a value with
\* an unpaired surrogate comes back with U+FFFD in its place.  Whatever the
\* values hold ("&", "=", "?", "#", "+", a space), the query string has the
\* parameters of the operation and no other.
C19_RoundTrip ==
    \A c \in Callers :
        TakesValue(c) =>
            /\ OnlyOwnParameters(c)
            /\ ParamValues(c, MainName(c)) = <<AsScalarValues(MainValue(c))>>
            /\ WellFormed(MainValue(c)) => ParamValues(c, MainName(c)) = <<MainValue(c)>>
            /\ ParamValues(c, LangName) \in {<<>>, <<AsScalarValues(call[c].options.lang)>>}
            /\ WellFormed(call[c].options.lang) =>
                  ParamValues(c, LangName) \in {<<>>, <<call[c].options.lang>>}
            /\ \A i \in 1..Len(UrlQuery(RestOf(c))) : UrlQuery(RestOf(c))[i] \notin {"?", "#", " "}

\* A search for "+" with the lang "&" requested the query string
\* q=%2B&lang=%26 and has resolved.
C19_Witness ==
    \E c \in Callers :
        /\ call[c].op = "search" /\ call[c].query = <<"+">>
        /\ call[c].options = WithLang(<<"&">>)
        /\ call[c].pc = "resolved"
        /\ UrlQuery(RestOf(c)) =
               <<"q", "=", "%", "2", "B", "&", "l", "a", "n", "g", "=", "%", "2", "6">>

\* The call c handed a request to the transport, which has not settled it.
Pending(c) == Len(RequestsBy(c)) = 1 /\ ~Answered(c)

\* C20, as stated: a call settles only after its transport request has
\* settled; it neither resolves nor rejects on its own.
C20_AsStated == \A c \in Callers : Settled(c) => Answered(c)

\* C20, amended: the client defines no timeout.  A call that handed a request
\* to the transport settles only after the transport has settled that
\* request: as long as the transport has not, the call is waiting and has
\* neither resolved nor rejected.  The one call that settles on its own is a
\* get or lookup whose id has an unpaired surrogate, which fails with a
\* URIError before any request is made.  When the transport and the body read
\* that follows always settle in the end, every call made settles in the end,
\* with a result or with an error.
C20_NoTimeout ==
    /\ [](\A c \in Callers : Pending(c) => call[c].pc = "fetching" /\ ~Settled(c))
    /\ [](\A c \in Callers :
             (Settled(c) /\ ~Answered(c)) =>
                 /\ Unencodable(c) /\ Len(RequestsBy(c)) = 0
                 /\ call[c].pc = "rejected" /\ call[c].error = UriError)
    /\ \A c \in Callers : Made(c) ~> Settled(c)

\* A health call whose request the transport answered with 500 and a body
\* that is not JSON has settled, with an error, after the body read.
C20_Witness ==
    \E c \in Callers :
        /\ call[c].op = "health" /\ Settled(c) /\ call[c].pc = "rejected"
        /\ GotResponse(c) /\ AnswerTo(c).response.status = 500
        /\ AnswerTo(c).response.body = NotJsonBody
        /\ call[c].reads = 1

\* C21: a client constructed with a transport sends every request of every
\* operation through that function and never through the platform's fetch;
\* the platform's fetch is used only when no transport was supplied.
C21_SuppliedTransport ==
    \A i \in 1..Len(fetchLog) :
        /\ clientOptions.fetchGiven => fetchLog[i].via = "options.fetch"
        /\ fetchLog[i].via = "globalThis.fetch" => ~clientOptions.fetchGiven
        /\ fetchLog[i].via \in {"options.fetch", "globalThis.fetch"}

\* A search on a client constructed with a transport was handed to that
\* transport, which failed, and the call failed with it.
C21_Witness ==
    /\ clientOptions.fetchGiven
    /\ Len(fetchLog) = 1 /\ fetchLog[1].via = "options.fetch"
    /\ call[fetchLog[1].by].op = "search"
    /\ call[fetchLog[1].by].pc = "rejected"
    /\ call[fetchLog[1].by].error = StubError

\* The base URL s without one slash at its end.
MinusTrailingSlash(s) == IF EndsWith(s, <<"/">>) THEN SubSeq(s, 1, Len(s) - 1) ELSE s

\* C22: a client constructed without a baseUrl sends its requests to
\* "https://bind.codes" + path; a client constructed with a baseUrl sends
\* every request to that base URL, minus a trailing slash, + path, and never
\* to the default origin.
C22_BaseUrlChoice ==
    \A i \in 1..Len(fetchLog) :
        LET path == PathFromArguments(call[fetchLog[i].by])
        IN  IF clientOptions.baseUrlGiven
            THEN /\ fetchLog[i].url = MinusTrailingSlash(clientOptions.baseUrl) \o path
                 /\ ~IsPrefix(<<"h", "t", "t", "p", "s", ":", "/", "/", "b", "i", "n", "d", ".",
                                "c", "o", "d", "e", "s">>, fetchLog[i].url)
            ELSE fetchLog[i].url =
                     <<"h", "t", "t", "p", "s", ":", "/", "/", "b", "i", "n", "d", ".",
                       "c", "o", "d", "e", "s">> \o path

\* health() on a client constructed without a baseUrl requested
\* https://bind.codes/health.
C22_Witness ==
    /\ ~clientOptions.baseUrlGiven
    /\ Len(fetchLog) = 1
    /\ call[fetchLog[1].by].op = "health"
    /\ fetchLog[1].url = <<"h", "t", "t", "p", "s", ":", "/", "/", "b", "i", "n", "d", ".",
                           "c", "o", "d", "e", "s", "/", "h", "e", "a", "l", "t", "h">>

\* C23: each call returns a value of its own.  The objects two different
\* calls returned are different objects, even when the calls had equal
\* arguments and the objects are equal in content; the client keeps nothing
\* but its configuration, so no reference to a returned value; and a value,
\* once returned, is never changed.
C23_FreshValues ==
    /\ [](\A c, d \in Callers :
             (c # d /\ call[c].pc = "resolved" /\ call[d].pc = "resolved"
                    /\ IsObject(call[c].value) /\ IsObject(call[d].value)) =>
                 /\ call[c].ref # 0 /\ call[d].ref # 0
                 /\ call[c].ref # call[d].ref)
    /\ [](client = <<clientOptions, ConstructorBaseUrl(clientOptions),
                     ConstructorFetch(clientOptions)>>)
    /\ [][\A c \in Callers :
             call[c].pc = "resolved" =>
                 /\ call'[c].value = call[c].value
                 /\ call'[c].ref = call[c].ref
                 /\ call'[c].pc = "resolved"]_vars

\* Two lookups with equal arguments both returned the JSON of the code
\* system: values equal in content, in two objects.
C23_Witness ==
    /\ call[1].op = "lookup" /\ call[2].op = "lookup" /\ SameCall(1, 2)
    /\ call[1].pc = "resolved" /\ call[2].pc = "resolved"
    /\ call[1].value = call[2].value /\ IsObject(call[1].value)
    /\ call[1].ref # call[2].ref

\* The body text parses to a value that has an error field which is neither
\* absent nor null.
ErrorFieldPresent(text) ==
    /\ JsonParse(text).ok
    /\ JsonParse(text).value.kind = "object"
    /\ "error" \in DOMAIN JsonParse(text).value.fields
    /\ JsonParse(text).value.fields["error"].kind \notin {"undefined", "null"}

\* C24: on a response that is not 2xx the message of the error is body.error
\* when there is one, and the generic "HTTP <status>: <statusText>" exactly
\* when the body did not parse or the parsed body has no error field (absent
\* or null); in the second case the parsed body is still the error's body;
\* the error's body is absent only when the body did not parse.
C24_MessageChoice ==
    \A c \in Callers :
        (GotResponse(c) /\ ~Is2xx(AnswerTo(c).response.status) /\ call[c].pc = "rejected") =>
            LET response == AnswerTo(c).response
                generic == <<"HTTP ", ToString(response.status), ": ", response.statusText>>
            IN  /\ ErrorFieldPresent(response.body) =>
                      /\ call[c].error.message =
                             JsonParse(response.body).value.fields["error"].text
                      /\ call[c].error.message # generic
                /\ ~ErrorFieldPresent(response.body) => call[c].error.message = generic
                /\ JsonParse(response.body).ok =>
                      /\ call[c].error.body = JsonParse(response.body).value
                      /\ call[c].error.body # Undefined
                /\ ~JsonParse(response.body).ok => call[c].error.body = Undefined

\* A get answered 404 with {"error":null} has failed with the message
\* "HTTP 404: Not Found" and carries the parsed body.
C24_Witness ==
    \E c \in Callers :
        /\ call[c].op = "get" /\ call[c].pc = "rejected"
        /\ GotResponse(c)
        /\ AnswerTo(c).response.status = 404 /\ AnswerTo(c).response.body = NullErrorBody
        /\ call[c].error.message = <<"HTTP ", "404", ": ", "Not Found">>
        /\ call[c].error.body = JsObject([error |-> JsNull])

\* C25: the errors the client constructs are of one kind of their own.  Every
\* error the client constructed is a TerminologyClientError, an Error named
\* "TerminologyClientError", whose status and body are the status of the
\* response and the body parsed from it (absent when it did not parse); no
\* other error a call fails with is of that kind; and the error of a failed
\* call is never changed afterwards.
C25_DistinctErrorKind ==
    /\ [](\A c \in Callers :
             call[c].constructed >= 1 =>
                 /\ call[c].constructed = 1 /\ call[c].pc = "rejected"
                 /\ call[c].error.kind = "TerminologyClientError"
                 /\ call[c].error.name = "TerminologyClientError"
                 /\ GotResponse(c)
                 /\ call[c].error.status = AnswerTo(c).response.status
                 /\ call[c].error.body =
                        (IF JsonParse(AnswerTo(c).response.body).ok
                         THEN JsonParse(AnswerTo(c).response.body).value ELSE Undefined))
    /\ [](\A c \in Callers :
             (call[c].pc = "rejected" /\ call[c].constructed = 0) =>
                 /\ call[c].error.kind \in {"TypeError", "StubError", "SyntaxError", "URIError"}
                 /\ call[c].error.kind # "TerminologyClientError")
    /\ [][\A c \in Callers :
             call[c].pc = "rejected" =>
                 call'[c].error = call[c].error /\ call'[c].pc = "rejected"]_vars

\* A list call answered 500 with {"error":"not found"} has failed with an
\* error named "TerminologyClientError" of status 500 that carries the body.
C25_Witness ==
    \E c \in Callers :
        /\ call[c].op = "list" /\ call[c].pc = "rejected"
        /\ call[c].constructed = 1
        /\ call[c].error.name = "TerminologyClientError"
        /\ call[c].error.status = 500
        /\ call[c].error.body = JsObject([error |-> JsString(<<"not found">>)])

\* C26: the request is handed to the transport inside the call of the
\* operation, before the call first suspends: a call that was made has its
\* request with the transport already, and the transport has received the
\* requests in the order the operations were called, in whatever order the
\* answers come back.
C26_RequestsInCallOrder ==
    /\ \A c \in Callers : (Made(c) /\ ~Unencodable(c)) => Len(RequestsBy(c)) = 1
    /\ \A i, j \in 1..Len(fetchLog) : i < j => fetchLog[i].by < fetchLog[j].by
    /\ Len(fetchLog) = Cardinality({c \in Callers : Made(c) /\ ~Unencodable(c)})

\* get() and then list() were called without awaiting; the transport received
\* the request of get first and answered the request of list first.
C26_Witness ==
    /\ call[1].op = "get" /\ call[2].op = "list"
    /\ Len(fetchLog) >= 2 /\ fetchLog[1].by = 1 /\ fetchLog[2].by = 2
    /\ Len(answers) >= 2 /\ answers[1].to = 2 /\ answers[2].to = 1

\* C27: for each call the body of the response is read exactly once, when the
\* response has arrived and its status was checked: on the failure branch for
\* a status that is not 2xx, on the success branch for a 2xx status, never on
\* both; and it is not read when the transport failed or has not answered.
C27_BodyReadOnce ==
    /\ [](\A c \in Callers :
             /\ GotResponse(c) =>
                   /\ call[c].reads = 1
                   /\ call[c].response = AnswerTo(c).response
                   /\ call[c].pc = "readingError" => ~Is2xx(call[c].response.status)
                   /\ call[c].pc = "readingResult" => Is2xx(call[c].response.status)
                   /\ call[c].pc = "resolved" => Is2xx(call[c].response.status)
             /\ ~GotResponse(c) =>
                   /\ call[c].reads = 0
                   /\ call[c].pc \notin {"readingError", "readingResult", "resolved"})
    /\ [][\A c \in Callers :
             /\ call[c].pc = "readingError" => call'[c].pc \in {"readingError", "rejected"}
             /\ call[c].pc = "readingResult" =>
                   call'[c].pc \in {"readingResult", "resolved", "rejected"}
             /\ call[c].reads = 1 => call'[c].reads = 1]_vars

\* A lookup answered 299 with the JSON null has read the body once and
\* returned null.
C27_Witness ==
    \E c \in Callers :
        /\ call[c].op = "lookup" /\ call[c].pc = "resolved"
        /\ GotResponse(c) /\ AnswerTo(c).response.status = 299
        /\ AnswerTo(c).response.body = NullBody
        /\ call[c].reads = 1 /\ call[c].value = JsNull

\* C28: a 2xx response whose body is not well-formed JSON makes the call
\* fail and never return a value: the call is rejected with the error of the
\* body parser, no TerminologyClientError is constructed and no further
\* request is made.
C28_ParseFailureOnSuccess ==
    \A c \in Callers :
        (GotResponse(c) /\ Is2xx(AnswerTo(c).response.status)
                        /\ ~JsonParse(AnswerTo(c).response.body).ok) =>
            /\ call[c].pc \in {"readingResult", "rejected"}
            /\ call[c].value = Undefined
            /\ call[c].constructed = 0
            /\ Len(RequestsBy(c)) = 1
            /\ call[c].pc = "rejected" => call[c].error = JsonSyntaxError

\* A search answered 299 with a body that is not JSON has failed with the
\* parser's SyntaxError, after one request.
C28_Witness ==
    \E c \in Callers :
        /\ call[c].op = "search" /\ call[c].pc = "rejected"
        /\ GotResponse(c) /\ AnswerTo(c).response.status = 299
        /\ AnswerTo(c).response.body = NotJsonBody
        /\ call[c].error = JsonSyntaxError
        /\ Len(fetchLog) = 1

\* The call c is a get of a non-empty id without lang, the call d is a list,
\* a health or a search, and both handed a request to the transport.
GetAndFixedPath(c, d) ==
    /\ call[c].op = "get" /\ call[c].id # <<>> /\ ~call[c].options.langGiven
    /\ call[d].op \in {"list", "health", "search"}
    /\ Len(RequestsBy(c)) = 1 /\ Len(RequestsBy(d)) = 1

\* C29, as stated: for every non-empty id, the URL requested by get(id)
\* differs from the URLs requested by list(), by health() and by any search.
C29_AsStated ==
    \A c, d \in Callers :
        GetAndFixedPath(c, d) => RequestsBy(c)[1].url # RequestsBy(d)[1].url

\* C29, amended: the URL requested by get(id) differs from the URL of any
\* search, for every non-empty id, and from the URLs of list() and health()
\* for every id but "list" and "health": get("list") requests the URL of
\* list() and get("health") the URL of health().
C29_DisjointButListAndHealth ==
    \A c, d \in Callers :
        GetAndFixedPath(c, d) =>
            /\ call[d].op = "search" => RequestsBy(c)[1].url # RequestsBy(d)[1].url
            /\ RequestsBy(c)[1].url = RequestsBy(d)[1].url <=>
                   \/ call[d].op = "list" /\ call[c].id = <<"l", "i", "s", "t">>
                   \/ call[d].op = "health" /\ call[c].id = <<"h", "e", "a", "l", "t", "h">>

\* get("$search?q=a") and search("a") were both made and requested different
\* URLs, the first one http://localhost:8787/%24search%3Fq%3Da.
C29_Witness ==
    /\ call[1].op = "get"
    /\ call[1].id = <<"$", "s", "e", "a", "r", "c", "h", "?", "q", "=", "a">>
    /\ call[2].op = "search" /\ call[2].options = NoLang
    /\ call[1].pc = "resolved" /\ call[2].pc = "resolved"
    /\ RequestsBy(1)[1].url # RequestsBy(2)[1].url
    /\ RequestsBy(1)[1].url =
           LocalBaseUrl \o <<"/", "%", "2", "4", "s", "e", "a", "r", "c", "h",
                             "%", "3", "F", "q", "%", "3", "D", "a">>

\* ------------------------------------------------------------------ C30

\* The names that end in ".ts", written out.
TsNamed == {ATs, BTs, IndexTs}

\* The entries of the source directory the script is to copy.
Wanted == {n \in TsNamed \ {IndexTs} : sync.source[n] # "absent"}

SyncTerminated == sync.pc \in {"done", "exited"}
BothDirectoriesExist == sync.sourceExists /\ sync.targetExists

\* What holds of every run, whatever the entries are: index.ts of the target
\* is never written, a target entry with no same-named source entry is as it
\* was, and without the source or the target directory the script gets no
\* further than its two checks, ends with status 1 and copies nothing.
SyncFrame ==
    /\ sync.target[IndexTs] = sync.targetAtStart[IndexTs]
    /\ \A n \in SyncNames :
           sync.source[n] = "absent" => sync.target[n] = sync.targetAtStart[n]
    /\ ~BothDirectoriesExist =>
           /\ sync.pc \in {"start", "checkTarget", "exited"}
           /\ sync.copied = {}
           /\ sync.target = sync.targetAtStart
           /\ SyncTerminated => sync.status = 1

\* C30 as the spec states it: besides the frame, a run that finds both
\* directories has copied, when it ends, exactly the entries named *.ts other
\* than index.ts.  Violated: an entry named a.ts that is a directory, or whose
\* name is a directory in the target, makes cpSync throw, and the run ends
\* with status 1 with that entry, and any entry the loop had not reached, not
\* copied.
C30_AsStated ==
    /\ SyncFrame
    /\ (BothDirectoriesExist /\ SyncTerminated) =>
           /\ sync.copied = Wanted
           /\ \A n \in Wanted : sync.target[n] = sync.source[n]

\* C30: the type-sync script copies only entries of the source directory
\* whose name ends in ".ts" other than index.ts, each of them a file copied
\* with the content of the standard, and leaves every other target entry as
\* it was; the target's index.ts is never written; a target entry with no
\* same-named source entry is neither deleted nor modified; without the source
\* or the target directory the script ends with status 1 having copied
\* nothing.  A run that ends with status 0 has copied every such entry; a run
\* that finds both directories ends with status 1 exactly when it reached an
\* entry that is a directory or whose name is a directory in the target, and
\* then what it copied before stays copied.
C30_SyncCopiesTypeFiles ==
    /\ SyncFrame
    /\ sync.copied \subseteq Wanted
    /\ \A n \in sync.copied :
           sync.source[n] = "standard file" /\ sync.target[n] = "standard file"
    /\ \A n \in SyncNames \ sync.copied : sync.target[n] = sync.targetAtStart[n]
    /\ sync.pc = "done" => sync.copied = Wanted /\ sync.status = 0
    /\ (BothDirectoriesExist /\ sync.pc = "exited") =>
           /\ sync.status = 1
           /\ \E n \in Wanted \ sync.copied :
                  sync.source[n] = "dir" \/ sync.targetAtStart[n] = "dir"
    /\ (BothDirectoriesExist
            /\ \A n \in Wanted : sync.source[n] # "dir" /\ sync.targetAtStart[n] # "dir")
           => sync.pc # "exited"

\* A run that ended with status 0: a.ts was copied over the SDK's a.ts and
\* b.ts to a free name, while index.ts, which the source has too, and a.md,
\* which the source has not, are the SDK's as before.
C30_Witness ==
    /\ sync.pc = "done"
    /\ sync.copied = {ATs, BTs}
    /\ sync.targetAtStart[ATs] = "sdk file" /\ sync.target[ATs] = "standard file"
    /\ sync.targetAtStart[BTs] = "absent" /\ sync.target[BTs] = "standard file"
    /\ sync.source[IndexTs] = "standard file" /\ sync.target[IndexTs] = "sdk file"
    /\ sync.source[AMd] = "absent" /\ sync.target[AMd] = "sdk file"

====
